---------------------------- MODULE Spec2Model ----------------------------
(***************************************************************************)
(* NuDock: a request/response dispatch engine between a server endpoint    *)
(* and its callers (src/nudock.cpp, src/nudock.hpp).                       *)
(*                                                                         *)
(* The state is the fields of the NuDock objects, the address the server   *)
(* listens on, and the requests the transport has accepted: each one is    *)
(* run by a worker of the transport's pool, so several are in flight at    *)
(* the same time and each statement of a route that touches a field of     *)
(* the endpoint is a step of its own.                                      *)
(***************************************************************************)
EXTENDS Integers, Sequences, FiniteSets, TLC

VARIABLES
    m_server,            \* per endpoint: the httplib::Server handle and its state
    m_client,            \* per endpoint: whether the httplib::Client handle is set
    m_request_handlers,  \* per endpoint: request name -> handler
    m_schema_validator,  \* per endpoint: request name -> schema pair
    m_request,           \* per endpoint: the endpoint-scoped request document
    m_response,          \* per endpoint: the endpoint-scoped response document
    m_debug,             \* per endpoint: validation enabled
    m_debug_prefix,      \* per endpoint: "Undefined", "Server" or "Client"
    m_request_counter,   \* per endpoint: requests sent / processed
    m_comm_type,         \* per endpoint: the configured communication kind
    m_version,           \* per endpoint: the version string built in
    routes,              \* per endpoint: the per-handler routes installed (name -> captured handler)
    listener,            \* per address: the endpoint accepting connections there, or "none"
    reqs,                \* the requests posted so far, with each one's position in its route
    proc,                \* per endpoint: whether its process is alive
    cpc,                 \* per endpoint: where its start_client call is
    sys_pars_,           \* per endpoint: the parameters its Experiment object holds
    lastCall             \* the last API call made and how it ended

vars == <<m_server, m_client, m_request_handlers, m_schema_validator, m_request,
          m_response, m_debug, m_debug_prefix, m_request_counter, m_comm_type,
          sys_pars_, m_version, routes, listener, reqs, proc, cpc, lastCall>>

(***************************************************************************)
(* Bounds and the input sets.                                              *)
(***************************************************************************)
\* How many requests are posted in one run of Spec, and how many in a run of
\* SpecSequential (one after the other) or SpecConcurrent (in flight together).
MaxPosts == 1
MaxRequests == 2

\* How many requests the test client posts in a run of SpecSession: the
\* handshake, and its calls of send_request.
MaxCalls == 4

Endpoints == {"dock", "peer"}

\* HTTP statuses the routes set.
StatusOK == 200
StatusBadRequest == 400
StatusNotFound == 404
\* httplib's Response starts with no status; the transport sends 200 for a
\* route that returned without setting one.
StatusUnset == 0 - 1

LocalVersion == "1.0.0"
OtherVersion == "0.9.0"
Versions == {LocalVersion, OtherVersion}

HandshakePath == "/validate_start"
Names == {"/ping", "/echo"}
UnknownPath == "/nope"
Paths == {HandshakePath, UnknownPath} \cup Names

CommunicationType == {"UNIX_DOMAIN_SOCKET", "LOCALHOST", "TCP"}

(***************************************************************************)
(* Documents (nlohmann::json values).  A document has a type, a scalar     *)
(* content, and for an object its members <<key, type, content>>.          *)
(***************************************************************************)
Null == [t |-> "null", v |-> "", m |-> {}]
Str(s) == [t |-> "string", v |-> s, m |-> {}]
Num(n) == [t |-> "number", v |-> n, m |-> {}]
Obj(members) == [t |-> "object", v |-> "", m |-> members]
VersionDoc(ver) == Obj({<<"version", "string", ver>>})

\* json::clear(): the content is reset, the type is kept.
Clear(d) ==
    CASE d.t = "string" -> Str("")
      [] d.t = "number" -> Num("0")
      [] d.t = "object" -> Obj({})
      [] OTHER -> Null

\* json::operator[](key) on a non-const value: a null value becomes an object,
\* an object gets or keeps the member, any other type throws type_error.305.
CanIndex(d) == d.t \in {"null", "object"}
SetMember(d, key, mt, mv) == Obj({x \in d.m : x[1] # key} \cup {<<key, mt, mv>>})

\* json::contains(key): false for everything that is not an object.
Contains(d, key) == d.t = "object" /\ \E x \in d.m : x[1] = key
Member(d, key) == CHOOSE x \in d.m : x[1] = key

(***************************************************************************)
(* Texts on the wire.  A body is either the serialisation of a document or *)
(* a text that is no JSON (an error message, a malformed request).         *)
(***************************************************************************)
\* json::dump() writes a NaN number as the literal null.
WrittenScalar(mt, mv) == IF mt = "number" /\ mv = "nan" THEN <<"null", "">> ELSE <<mt, mv>>
Written(d) ==
    IF d.t = "object"
    THEN Obj({<<x[1], WrittenScalar(x[2], x[3])[1], WrittenScalar(x[2], x[3])[2]>> : x \in d.m})
    ELSE [t |-> WrittenScalar(d.t, d.v)[1], v |-> WrittenScalar(d.t, d.v)[2], m |-> {}]
\* json::dump() throws type_error.316 on a string that is not UTF-8.
DumpThrows(d) ==
    \/ d.t = "string" /\ d.v = "\\xff"
    \/ \E x \in d.m : x[2] = "string" /\ x[3] = "\\xff"
Dump(d) == [wf |-> TRUE, doc |-> Written(d)]
PlainText(s) == [wf |-> FALSE, doc |-> Str(s)]
Garbage == PlainText("{not json")
\* json::parse(text): throws parse_error on a text that is no JSON.
ParseThrows(b) == ~b.wf
Parse(b) == b.doc

(***************************************************************************)
(* Schemas and handlers: the inputs of register_response.                  *)
(***************************************************************************)
\* The schema documents <schemas_dir>/<name>.schema.json of the file system:
\* /echo takes and returns { "value": <number> }, /ping takes anything and
\* returns a string.
SchemaFile(name) ==
    CASE name = "/echo" -> [request |-> "value_number", response |-> "value_number"]
      [] name \in {"/set_parameters", "/log_likelihood"} ->
            [request |-> "any", response |-> "object"]
      [] OTHER -> [request |-> "any", response |-> "string"]

\* json_validator::validate with the throwing error handler: TRUE when the
\* document is accepted, FALSE when the first violation is thrown.
Validate(schema, d) ==
    CASE schema = "value_number" ->
            d.t = "object" /\ \E x \in d.m : x[1] = "value" /\ x[2] = "number"
      [] schema = "string" -> d.t = "string"
      [] schema = "object" -> d.t = "object"
      [] OTHER -> TRUE

\* The handler functions an application registers: pong answers "pong" to
\* anything, echo returns its input, set_parameters throws on a document
\* that is no object of numbers and stores the numbers of one that is,
\* log_likelihood returns the sum of the squares of the parameters stored,
\* non_finite returns a number that is not finite, as such a sum is once it
\* overflows ("nan" stands for the numbers that are not finite).
Handlers == {"pong", "echo", "set_parameters", "log_likelihood", "non_finite"}
HandlerThrows(h, d) ==
    h = "set_parameters" /\ (d.t # "object" \/ \E x \in d.m : x[2] # "number")

\* std::pow(value, 2) on the numbers the callers use; the square of a number
\* that is not finite is not finite.
Square(v) ==
    CASE v = "5" -> "25"
      [] v = "7" -> "49"
      [] OTHER -> "nan"

\* Experiment::set_parameters: sys_pars_[key] = value for every member of the
\* request, the members of other keys stay.
ParametersSet(pars, d) ==
    {x \in pars : \A y \in d.m : y[1] # x[1]} \cup {<<y[1], y[3]>> : y \in d.m}

\* Experiment::log_likelihood: the sum of the squares of the parameters held
\* (the callers set one parameter, so that the sum has one term at most).
LogLikelihood(pars) ==
    IF pars = {} THEN "0" ELSE Square((CHOOSE x \in pars : TRUE)[2])

\* The Experiment object after handler h has run on document d.
HandlerState(h, pars, d) ==
    IF h = "set_parameters" /\ ~HandlerThrows(h, d) THEN ParametersSet(pars, d) ELSE pars

\* What handler h returns for document d with the parameters pars held.
\* non_finite is a handler whose result is a number that is not finite.
HandlerOutput(h, pars, d) ==
    CASE h = "pong" -> Str("pong")
      [] h = "echo" -> d
      [] h = "non_finite" -> Obj({<<"value", "number", "nan">>})
      [] h = "log_likelihood" -> Obj({<<"log_likelihood", "number", LogLikelihood(pars)>>})
      [] OTHER -> Obj({<<"status", "string", "parameters set">>})

(***************************************************************************)
(* The initial state: two freshly constructed NuDock objects, each in a    *)
(* process of its own.  The constructor arguments are inputs.              *)
(***************************************************************************)
Addresses == {"UNIX_DOMAIN_SOCKET", "LOCALHOST"}

\* The endpoint under study is "dock"; "peer" is a second NuDock process,
\* configured alike.
Init ==
    /\ m_server = [e \in Endpoints |-> "null"]
    /\ m_client = [e \in Endpoints |-> FALSE]
    /\ m_request_handlers = [e \in Endpoints |-> [n \in {} |-> ""]]
    /\ m_schema_validator = [e \in Endpoints |-> [n \in {} |-> ""]]
    /\ m_request = [e \in Endpoints |-> Null]
    /\ m_response = [e \in Endpoints |-> Null]
    /\ \E d \in BOOLEAN : m_debug = [e \in Endpoints |-> d]
    /\ m_debug_prefix = [e \in Endpoints |-> "Undefined"]
    /\ m_request_counter = [e \in Endpoints |-> 0]
    /\ \E k \in CommunicationType : m_comm_type = [e \in Endpoints |-> k]
    /\ sys_pars_ = [e \in Endpoints |-> {}]
    /\ m_version = [e \in Endpoints |-> LocalVersion]
    /\ routes = [e \in Endpoints |-> [n \in {} |-> ""]]
    /\ listener = [a \in Addresses |-> "none"]
    /\ reqs = <<>>
    /\ proc = [e \in Endpoints |-> "running"]
    /\ cpc = [e \in Endpoints |-> "idle"]
    /\ lastCall = [op |-> "none", e |-> "none", arg |-> "", outcome |-> "none"]

\* lastCall names the API call the last step made, if it made one: the
\* function, the endpoint, the request name passed and how the call ended.
NoCall == lastCall' = [op |-> "none", e |-> "none", arg |-> "", outcome |-> "none"]
Called(op, e, arg, outcome) ==
    lastCall' = [op |-> op, e |-> e, arg |-> arg, outcome |-> outcome]

(***************************************************************************)
(* register_response(_request, _handler_function): the schema path is the  *)
(* default one, <schemas_dir> + name + ".schema.json".                     *)
(***************************************************************************)
\* A guard without the duplicate check, under which a second registration
\* replaces the first.
RegisterRejectsEmptyOnly(e, name) == name = ""

\* An exception leaves the function: the caller catches it, or the process
\* terminates.
Thrown(e, caught) == proc' = [proc EXCEPT ![e] = IF caught THEN @ ELSE "terminated"]

\* The file <schemas_dir>/<name>.schema.json as load_json_file finds it:
\* readable JSON, absent, or a text that is no JSON.
SchemaFileState(name) ==
    CASE name = "/missing" -> "missing"
      [] name = "/broken" -> "malformed"
      [] OTHER -> "ok"

\* load_json_file throws std::runtime_error when the file does not open or
\* does not parse.  SchemaLoadNeverThrows is a loader that swallows both.
SchemaLoadNeverThrows(name) == FALSE

SchemaLoadThrows(name) == SchemaFileState(name) \in {"missing", "malformed"}

\* The name -> handler map when the load has thrown: the insertion comes
\* after the load, so the map is as it was.  HandlersInsertedFirst is a
\* registration that stores the handler before it loads the schema.
HandlersInsertedFirst(e, name, handler) ==
    [x \in DOMAIN m_request_handlers[e] \cup {name} |->
        IF x = name THEN handler ELSE m_request_handlers[e][x]]

HandlersAfterThrow(e, name, handler) == m_request_handlers[e]

\* The early returns of register_response.
RegisterRejects(e, name) == name = "" \/ name \in DOMAIN m_request_handlers[e]

Extend(f, k, val) == [x \in DOMAIN f \cup {k} |-> IF x = k THEN val ELSE f[x]]

register_response(e, name, handler) ==
    /\ proc[e] = "running"
    /\ IF RegisterRejects(e, name)
       THEN /\ Called("register_response", e, name, "rejected")
            /\ UNCHANGED <<m_request_handlers, m_schema_validator, proc>>
       ELSE IF SchemaLoadThrows(name)
       THEN /\ \E caught \in BOOLEAN : Thrown(e, caught)
            /\ m_request_handlers' =
                  [m_request_handlers EXCEPT ![e] = HandlersAfterThrow(e, name, handler)]
            /\ Called("register_response", e, name, "threw")
            /\ UNCHANGED m_schema_validator
       ELSE /\ m_schema_validator' =
                  [m_schema_validator EXCEPT ![e] = Extend(@, name, SchemaFile(name))]
            /\ m_request_handlers' =
                  [m_request_handlers EXCEPT ![e] = Extend(@, name, handler)]
            /\ Called("register_response", e, name, "registered")
            /\ UNCHANGED proc
    /\ UNCHANGED <<m_server, m_client, m_request, m_response, m_debug, m_debug_prefix,
                   m_request_counter, m_comm_type, sys_pars_, m_version, routes, listener, reqs,
                   cpc>>

(***************************************************************************)
(* start_server()                                                          *)
(***************************************************************************)
\* Two weaker guards: one that looks at the client handle only, and one that
\* takes a server that no longer listens for an endpoint without a role.
RoleSetClientOnly(e) == m_client[e]
RoleSetWhileListening(e) == m_client[e] \/ m_server[e] = "listening"
\* A guard that lets an endpoint with a client handle start a client again.
RoleSetServerOnly(e) == m_server[e] # "null"

\* if (m_client || m_server): a role is already set.
RoleSet(e) == m_client[e] \/ m_server[e] # "null"

\* switch (m_comm_type): the transport kind the endpoint was configured with.
\* TransportFallback is a switch that treats the network kind as loopback.
TransportFallback(e) == IF m_comm_type[e] = "TCP" THEN "LOCALHOST" ELSE m_comm_type[e]

Transport(e) == m_comm_type[e]

\* Whether listen() binds: the domain-socket path is unlinked first, so the
\* bind takes the path over; a loopback port in use makes listen() return.
Binds(e) ==
    \/ Transport(e) = "UNIX_DOMAIN_SOCKET"
    \/ Transport(e) = "LOCALHOST" /\ listener["LOCALHOST"] = "none"

start_server(e) ==
    /\ proc[e] = "running"
    /\ IF RoleSet(e)
       THEN /\ Called("start_server", e, "", "rejected")
            /\ UNCHANGED <<m_server, m_debug_prefix, routes, listener>>
       ELSE /\ m_debug_prefix' = [m_debug_prefix EXCEPT ![e] = "Server"]
            /\ routes' = [routes EXCEPT ![e] = m_request_handlers[e]]
            /\ IF Transport(e) = "TCP"
               THEN /\ m_server' = [m_server EXCEPT ![e] = "created"]
                    /\ Called("start_server", e, "", "unsupported")
                    /\ UNCHANGED listener
               ELSE IF Binds(e)
               THEN /\ m_server' = [m_server EXCEPT ![e] = "listening"]
                    /\ listener' = [listener EXCEPT ![Transport(e)] = e]
                    /\ Called("start_server", e, "", "listening")
               ELSE /\ m_server' = [m_server EXCEPT ![e] = "created"]
                    /\ Called("start_server", e, "", "not bound")
                    /\ UNCHANGED listener
    /\ UNCHANGED <<m_client, m_request_handlers, m_schema_validator, m_request,
                   m_response, m_debug, m_request_counter, m_comm_type, sys_pars_, m_version,
                   reqs, proc, cpc>>

(***************************************************************************)
(* The transport (httplib): a post to an address reaches the endpoint      *)
(* listening there, which picks the first route matching the path, in the  *)
(* order start_server installed them; a worker of the pool runs the route  *)
(* and the response is written once the route has returned.                *)
(***************************************************************************)
\* A dispatch that tries the routes of the registered names before the
\* handshake route.
FirstStepRegistryFirst(e, path) ==
    IF path \in DOMAIN routes[e] THEN "h_count_read"
    ELSE IF path = HandshakePath THEN "v_parse"
    ELSE "catch_all"

\* The route a path is dispatched to: the handshake route was installed first,
\* then one route per registered name, then the catch-all.
FirstStep(e, path) ==
    IF path = HandshakePath THEN "v_parse"
    ELSE IF path \in DOMAIN routes[e] THEN "h_count_read"
    ELSE "catch_all"

NewRequest(from, to, path, body, pc) ==
    [from |-> from, to |-> to, path |-> path, body |-> body, pc |-> pc,
     status |-> StatusUnset, rbody |-> PlainText(""),
     cnt |-> 0, validated |-> FALSE, out |-> Null,
     invoked |-> FALSE, harg |-> Null,
     api |-> "none", msg |-> Null, returned |-> FALSE, ret |-> Null]

\* Client::Post as the transport sees it: with nobody listening at the address
\* the connection is refused, otherwise the request is handed to a worker.
Posted(from, a, path, body) ==
    IF listener[a] = "none"
    THEN Append(reqs, NewRequest(from, "none", path, body, "refused"))
    ELSE Append(reqs, NewRequest(from, listener[a], path, body,
                                 FirstStep(listener[a], path)))

\* What a caller that is no NuDock client posts: a path and a body.
ExternalRequests ==
    {<<HandshakePath, Dump(VersionDoc(LocalVersion))>>,
     <<HandshakePath, Dump(VersionDoc(OtherVersion))>>,
     <<HandshakePath, Garbage>>,
     <<"/ping", Dump(Str("x"))>>,
     <<"/ping", Dump(Obj({<<"value", "number", "5">>}))>>,
     <<"/echo", Dump(Obj({<<"value", "number", "5">>}))>>,
     <<"/echo", Dump(Obj({<<"value", "string", "x">>}))>>,
     <<"/echo", Garbage>>,
     <<UnknownPath, Dump(Str("x"))>>}

\* The address such a caller posts to: the one "dock" is configured for.
ServerAddress == IF m_comm_type["dock"] \in Addresses THEN m_comm_type["dock"] ELSE "LOCALHOST"

ExternalPost(limit, a, path, body) ==
    /\ Len(reqs) < limit
    /\ reqs' = Posted("external", a, path, body)
    /\ UNCHANGED <<m_server, m_client, m_request_handlers, m_schema_validator,
                   m_request, m_response, m_debug, m_debug_prefix, m_request_counter,
                   m_comm_type, sys_pars_, m_version, routes, listener, proc, cpc>>
    /\ NoCall

\* httplib::Server::stop(): the listening socket is closed; the requests
\* already with a worker are still answered.
Stopped(e) == [m_server EXCEPT ![e] = IF @ = "listening" THEN "stopped" ELSE @]

\* A stop() that leaves the listening socket open.
UnboundNever(e) == listener

Unbound(e) == [a \in Addresses |-> IF listener[a] = e THEN "none" ELSE listener[a]]

\* ERROR_RESPONSE(res, message): status 400, the message as plain text,
\* m_server->stop(), return.
ERROR_RESPONSE(i, message) ==
    /\ reqs' = [reqs EXCEPT ![i].status = StatusBadRequest,
                            ![i].rbody = PlainText(message),
                            ![i].pc = "returned"]
    /\ m_server' = Stopped(reqs[i].to)
    /\ listener' = Unbound(reqs[i].to)

Goto(i, pc) == reqs' = [reqs EXCEPT ![i].pc = pc]

AtStep(i, pc) == i \in 1..Len(reqs) /\ reqs[i].pc = pc /\ proc[reqs[i].to] = "running"

(***************************************************************************)
(* The per-handler route of start_server.                                  *)
(***************************************************************************)
\* if (m_debug): the two validations of the route are made only with the
\* debug flag on.  ValidatingAlways is a route that ignores the flag.
ValidatingAlways(e) == TRUE

Validating(e) == m_debug[e]

\* m_request_counter++, a read and a write of the endpoint's counter.
CountRead(i) ==
    /\ AtStep(i, "h_count_read")
    /\ reqs' = [reqs EXCEPT ![i].cnt = m_request_counter[reqs[i].to],
                            ![i].pc = "h_count_write"]
    /\ UNCHANGED <<m_server, m_client, m_request_handlers, m_schema_validator,
                   m_request, m_response, m_debug, m_debug_prefix, m_request_counter,
                   m_comm_type, sys_pars_, m_version, routes, listener, proc, cpc>>
    /\ NoCall

CountWrite(i) ==
    /\ AtStep(i, "h_count_write")
    /\ m_request_counter' = [m_request_counter EXCEPT ![reqs[i].to] = reqs[i].cnt + 1]
    /\ Goto(i, "h_clear")
    /\ UNCHANGED <<m_server, m_client, m_request_handlers, m_schema_validator,
                   m_request, m_response, m_debug, m_debug_prefix,
                   m_comm_type, sys_pars_, m_version, routes, listener, proc, cpc>>
    /\ NoCall

\* m_request.clear()
RequestClear(i) ==
    /\ AtStep(i, "h_clear")
    /\ m_request' = [m_request EXCEPT ![reqs[i].to] = Clear(@)]
    /\ Goto(i, "h_parse")
    /\ UNCHANGED <<m_server, m_client, m_request_handlers, m_schema_validator,
                   m_response, m_debug, m_debug_prefix, m_request_counter,
                   m_comm_type, sys_pars_, m_version, routes, listener, proc, cpc>>
    /\ NoCall

\* m_request = nlohmann::json::parse(req.body)
RequestParse(i) ==
    /\ AtStep(i, "h_parse")
    /\ IF ParseThrows(reqs[i].body)
       THEN /\ ERROR_RESPONSE(i, "parse_error")
            /\ UNCHANGED m_request
       ELSE /\ m_request' = [m_request EXCEPT ![reqs[i].to] = Parse(reqs[i].body)]
            /\ Goto(i, IF Validating(reqs[i].to) THEN "h_validate_request" ELSE "h_call")
            /\ UNCHANGED <<m_server, listener>>
    /\ UNCHANGED <<m_client, m_request_handlers, m_schema_validator,
                   m_response, m_debug, m_debug_prefix, m_request_counter,
                   m_comm_type, sys_pars_, m_version, routes, proc, cpc>>
    /\ NoCall

\* if (m_debug) request_validator->validate(m_request, m_err)
RequestValidate(i) ==
    /\ AtStep(i, "h_validate_request")
    /\ LET e == reqs[i].to
       IN IF Validate(m_schema_validator[e][reqs[i].path].request, m_request[e])
          THEN /\ Goto(i, "h_call")
               /\ UNCHANGED <<m_server, listener>>
          ELSE ERROR_RESPONSE(i, "Server request validation failed")
    /\ UNCHANGED <<m_client, m_request_handlers, m_schema_validator, m_request,
                   m_response, m_debug, m_debug_prefix, m_request_counter,
                   m_comm_type, sys_pars_, m_version, routes, proc, cpc>>
    /\ NoCall

\* handler(m_request): the handler captured by the route runs on the
\* endpoint's request document.
HandlerCall(i) ==
    /\ AtStep(i, "h_call")
    /\ LET e == reqs[i].to
           h == routes[e][reqs[i].path]
       IN /\ IF HandlerThrows(h, m_request[e])
             THEN /\ reqs' = [reqs EXCEPT ![i].status = StatusBadRequest,
                                          ![i].rbody = PlainText("handler_error"),
                                          ![i].pc = "returned",
                                          ![i].invoked = TRUE,
                                          ![i].harg = m_request[e]]
                  /\ m_server' = Stopped(e)
                  /\ listener' = Unbound(e)
             ELSE /\ reqs' = [reqs EXCEPT
                                ![i].out = HandlerOutput(h, sys_pars_[e], m_request[e]),
                                ![i].invoked = TRUE,
                                ![i].harg = m_request[e],
                                ![i].pc = "h_store"]
                  /\ UNCHANGED <<m_server, listener>>
          /\ sys_pars_' = [sys_pars_ EXCEPT ![e] = HandlerState(h, @, m_request[e])]
    /\ UNCHANGED <<m_client, m_request_handlers, m_schema_validator, m_request,
                   m_response, m_debug, m_debug_prefix, m_request_counter,
                   m_comm_type, m_version, routes, proc, cpc>>
    /\ NoCall

\* m_response = (the handler's output)
ResponseStore(i) ==
    /\ AtStep(i, "h_store")
    /\ m_response' = [m_response EXCEPT ![reqs[i].to] = reqs[i].out]
    /\ Goto(i, IF Validating(reqs[i].to) THEN "h_validate_response" ELSE "h_content")
    /\ UNCHANGED <<m_server, m_client, m_request_handlers, m_schema_validator,
                   m_request, m_debug, m_debug_prefix, m_request_counter,
                   m_comm_type, sys_pars_, m_version, routes, listener, proc, cpc>>
    /\ NoCall

\* if (m_debug) response_validator->validate(m_response, m_err)
ResponseValidate(i) ==
    /\ AtStep(i, "h_validate_response")
    /\ LET e == reqs[i].to
       IN IF Validate(m_schema_validator[e][reqs[i].path].response, m_response[e])
          THEN /\ Goto(i, "h_content")
               /\ UNCHANGED <<m_server, listener>>
          ELSE ERROR_RESPONSE(i, "Server response validation failed")
    /\ UNCHANGED <<m_client, m_request_handlers, m_schema_validator, m_request,
                   m_response, m_debug, m_debug_prefix, m_request_counter,
                   m_comm_type, sys_pars_, m_version, routes, proc, cpc>>
    /\ NoCall

\* res.set_content(m_response.dump(), "application/json"), and the route returns.
ResponseContent(i) ==
    /\ AtStep(i, "h_content")
    /\ LET e == reqs[i].to
       IN IF DumpThrows(m_response[e])
          THEN ERROR_RESPONSE(i, "type_error.316")
          ELSE /\ reqs' = [reqs EXCEPT ![i].rbody = Dump(m_response[e]),
                                       ![i].pc = "returned"]
               /\ UNCHANGED <<m_server, listener>>
    /\ UNCHANGED <<m_client, m_request_handlers, m_schema_validator, m_request,
                   m_response, m_debug, m_debug_prefix, m_request_counter,
                   m_comm_type, sys_pars_, m_version, routes, proc, cpc>>
    /\ NoCall

(***************************************************************************)
(* The handshake route of start_server, and validate_start.                *)
(***************************************************************************)
\* validate_start(_message): the message has a "version" entry equal to the
\* endpoint's own version string.
validate_start(e, message) ==
    /\ Contains(message, "version")
    /\ Member(message, "version") = <<"version", "string", m_version[e]>>

\* req_json = parse(req.body); validated = validate_start(req_json)
HandshakeParse(i) ==
    /\ AtStep(i, "v_parse")
    /\ IF ParseThrows(reqs[i].body)
       THEN ERROR_RESPONSE(i, "parse_error")
       ELSE /\ reqs' = [reqs EXCEPT
                          ![i].validated = validate_start(reqs[i].to, Parse(reqs[i].body)),
                          ![i].pc = "v_clear"]
            /\ UNCHANGED <<m_server, listener>>
    /\ UNCHANGED <<m_client, m_request_handlers, m_schema_validator, m_request,
                   m_response, m_debug, m_debug_prefix, m_request_counter,
                   m_comm_type, sys_pars_, m_version, routes, proc, cpc>>
    /\ NoCall

\* m_response.clear()
HandshakeClear(i) ==
    /\ AtStep(i, "v_clear")
    /\ m_response' = [m_response EXCEPT ![reqs[i].to] = Clear(@)]
    /\ Goto(i, "v_set")
    /\ UNCHANGED <<m_server, m_client, m_request_handlers, m_schema_validator,
                   m_request, m_debug, m_debug_prefix, m_request_counter,
                   m_comm_type, sys_pars_, m_version, routes, listener, proc, cpc>>
    /\ NoCall

\* m_response["version"] = m_version
HandshakeSet(i) ==
    /\ AtStep(i, "v_set")
    /\ LET e == reqs[i].to
       IN IF CanIndex(m_response[e])
          THEN /\ m_response' = [m_response EXCEPT
                                   ![e] = SetMember(@, "version", "string", m_version[e])]
               /\ Goto(i, "v_content")
               /\ UNCHANGED <<m_server, listener>>
          ELSE /\ ERROR_RESPONSE(i, "type_error.305")
               /\ UNCHANGED m_response
    /\ UNCHANGED <<m_client, m_request_handlers, m_schema_validator, m_request,
                   m_debug, m_debug_prefix, m_request_counter,
                   m_comm_type, sys_pars_, m_version, routes, proc, cpc>>
    /\ NoCall

\* res.set_content(m_response.dump(), "application/json")
HandshakeContent(i) ==
    /\ AtStep(i, "v_content")
    /\ LET e == reqs[i].to
       IN IF DumpThrows(m_response[e])
          THEN ERROR_RESPONSE(i, "type_error.316")
          ELSE /\ reqs' = [reqs EXCEPT
                             ![i].rbody = Dump(m_response[e]),
                             ![i].pc = IF reqs[i].validated THEN "returned" ELSE "v_stop"]
               /\ UNCHANGED <<m_server, listener>>
    /\ UNCHANGED <<m_client, m_request_handlers, m_schema_validator, m_request,
                   m_response, m_debug, m_debug_prefix, m_request_counter,
                   m_comm_type, sys_pars_, m_version, routes, proc, cpc>>
    /\ NoCall

\* if (!validated) m_server->stop(), and the route returns.
HandshakeStop(i) ==
    /\ AtStep(i, "v_stop")
    /\ m_server' = Stopped(reqs[i].to)
    /\ listener' = Unbound(reqs[i].to)
    /\ Goto(i, "returned")
    /\ UNCHANGED <<m_client, m_request_handlers, m_schema_validator, m_request,
                   m_response, m_debug, m_debug_prefix, m_request_counter,
                   m_comm_type, sys_pars_, m_version, routes, proc, cpc>>
    /\ NoCall

(***************************************************************************)
(* The catch-all route of start_server.                                    *)
(***************************************************************************)
\* A not-found body that does not name the path.
UnknownRequestUnnamed(path) == Obj({<<"error", "string", "Unknown request title: ">>})

UnknownRequest(path) == Obj({<<"error", "string", "Unknown request title: " \o path>>})

CatchAll(i) ==
    /\ AtStep(i, "catch_all")
    /\ IF reqs[i].path \in DOMAIN m_request_handlers[reqs[i].to]
       THEN Goto(i, "returned")
       ELSE reqs' = [reqs EXCEPT ![i].status = StatusNotFound,
                                 ![i].rbody = Dump(UnknownRequest(reqs[i].path)),
                                 ![i].pc = "returned"]
    /\ UNCHANGED <<m_server, m_client, m_request_handlers, m_schema_validator,
                   m_request, m_response, m_debug, m_debug_prefix, m_request_counter,
                   m_comm_type, sys_pars_, m_version, routes, listener, proc, cpc>>
    /\ NoCall

\* The transport writes the response of a route that has returned; a route
\* that set no status is answered with 200.
SendResponse(i) ==
    /\ AtStep(i, "returned")
    /\ reqs' = [reqs EXCEPT ![i].status = IF @ = StatusUnset THEN StatusOK ELSE @,
                            ![i].pc = "sent"]
    /\ UNCHANGED <<m_server, m_client, m_request_handlers, m_schema_validator,
                   m_request, m_response, m_debug, m_debug_prefix, m_request_counter,
                   m_comm_type, sys_pars_, m_version, routes, listener, proc, cpc>>
    /\ NoCall

(***************************************************************************)
(* start_client()                                                          *)
(***************************************************************************)
\* The handshake request of a client endpoint.
HandshakeOf(e) == CHOOSE i \in 1..Len(reqs) : reqs[i].from = e /\ reqs[i].path = HandshakePath

start_client(limit, e, caught) ==
    /\ proc[e] = "running"
    /\ IF RoleSet(e)
       THEN /\ Called("start_client", e, "", "rejected")
            /\ UNCHANGED <<m_client, m_debug_prefix, reqs, proc, cpc>>
       ELSE /\ m_debug_prefix' = [m_debug_prefix EXCEPT ![e] = "Client"]
            /\ IF Transport(e) = "TCP"
               THEN /\ Called("start_client", e, "", "unsupported")
                    /\ UNCHANGED <<m_client, reqs, proc, cpc>>
               ELSE /\ Len(reqs) < limit
                    /\ m_client' = [m_client EXCEPT ![e] = TRUE]
                    /\ reqs' = [Posted(e, Transport(e), HandshakePath,
                                       Dump(VersionDoc(m_version[e])))
                                  EXCEPT ![Len(reqs) + 1].api = "start_client",
                                         ![Len(reqs) + 1].msg = VersionDoc(m_version[e])]
                    /\ IF listener[Transport(e)] = "none"
                       THEN /\ Called("start_client", e, "", "threw")
                            /\ Thrown(e, caught)
                            /\ cpc' = [cpc EXCEPT ![e] = "failed"]
                       ELSE /\ Called("start_client", e, "", "posted")
                            /\ cpc' = [cpc EXCEPT ![e] = "handshake"]
                            /\ UNCHANGED proc
    /\ UNCHANGED <<m_server, m_request_handlers, m_schema_validator, m_request,
                   m_response, m_debug, m_request_counter, m_comm_type, sys_pars_, m_version,
                   routes, listener>>

\* BrokenNever is a transport that never reports a connection as broken.
BrokenNever(i) == FALSE

\* The server process of a request has ended before answering it: the
\* connection breaks and Post returns an error.
Broken(i) == reqs[i].pc # "sent" /\ proc[reqs[i].to] = "terminated"

\* if (res && res->status == 200).  HandshakeSucceedsOnMatch is a check that
\* also takes a reply with another version for a failure.
HandshakeSucceedsOnMatch(i) ==
    /\ reqs[i].pc = "sent"
    /\ reqs[i].status = StatusOK
    /\ validate_start(reqs[i].from, Parse(reqs[i].rbody))

HandshakeSucceeds(i) == reqs[i].pc = "sent" /\ reqs[i].status = StatusOK

\* The rest of start_client, once the handshake post has its result.
start_client_result(e, caught) ==
    /\ proc[e] = "running"
    /\ cpc[e] = "handshake"
    /\ reqs[HandshakeOf(e)].pc = "sent" \/ Broken(HandshakeOf(e))
    /\ LET i == HandshakeOf(e)
       IN /\ reqs' = [reqs EXCEPT ![i].pc = "delivered"]
          /\ IF HandshakeSucceeds(i) /\ ~ParseThrows(reqs[i].rbody)
             THEN /\ cpc' = [cpc EXCEPT ![e] = "ready"]
                  /\ Called("handshake_result", e, "",
                            IF validate_start(e, Parse(reqs[i].rbody))
                            THEN "validated" ELSE "mismatch logged")
                  /\ UNCHANGED proc
             ELSE /\ cpc' = [cpc EXCEPT ![e] = "failed"]
                  /\ Called("handshake_result", e, "", "threw")
                  /\ Thrown(e, caught)
    /\ UNCHANGED <<m_server, m_client, m_request_handlers, m_schema_validator,
                   m_request, m_response, m_debug, m_debug_prefix, m_request_counter,
                   m_comm_type, sys_pars_, m_version, routes, listener>>

(***************************************************************************)
(* send_request(_request, _message)                                        *)
(***************************************************************************)
\* The two guards of send_request that end in std::abort().
\* SendRequestAbortsNoClient leaves the check of the name out.
SendRequestAbortsNoClient(e, name) == ~m_client[e]

SendRequestAborts(e, name) == ~m_client[e] \/ name = ""

\* std::abort(): the process ends, nothing can catch it.  AbortReturns is a
\* failure path that comes back to the caller.
AbortReturns(e) == proc' = proc

Aborted(e) == proc' = [proc EXCEPT ![e] = "terminated"]

\* FreeAlways is a client whose calls do not wait for the reply.
FreeAlways(e) == TRUE

\* The thread of the application that makes the calls is not inside one.
Free(e) == cpc[e] \notin {"handshake", "sending"}

\* The request the endpoint posted last.
LastOf(e) ==
    CHOOSE i \in 1..Len(reqs) :
        reqs[i].from = e /\ \A j \in (i + 1)..Len(reqs) : reqs[j].from # e

\* send_request up to the post: the counter, the two guards, the
\* serialisation of the message (an exception ends in std::abort()), the post.
send_request(limit, e, name, message) ==
    /\ proc[e] = "running"
    /\ Free(e)
    /\ m_request_counter' = [m_request_counter EXCEPT ![e] = @ + 1]
    /\ IF SendRequestAborts(e, name)
       THEN /\ Aborted(e)
            /\ Called("send_request", e, name, "aborted")
            /\ UNCHANGED <<reqs, cpc>>
       ELSE IF DumpThrows(message)
       THEN /\ Aborted(e)
            /\ Called("send_request", e, name, "exception")
            /\ UNCHANGED <<reqs, cpc>>
       ELSE /\ Len(reqs) < limit
            /\ reqs' = [Posted(e, Transport(e), name, Dump(message))
                          EXCEPT ![Len(reqs) + 1].api = "send_request",
                                 ![Len(reqs) + 1].msg = message]
            /\ IF listener[Transport(e)] = "none"
               THEN /\ Aborted(e)
                    /\ Called("send_request", e, name, "refused")
                    /\ UNCHANGED cpc
               ELSE /\ cpc' = [cpc EXCEPT ![e] = "sending"]
                    /\ Called("send_request", e, name, "posted")
                    /\ UNCHANGED proc
    /\ UNCHANGED <<m_server, m_client, m_request_handlers, m_schema_validator,
                   m_request, m_response, m_debug, m_debug_prefix,
                   m_comm_type, sys_pars_, m_version, routes, listener>>

\* The rest of send_request, once the post has its result: on status 200
\* m_response.clear(), m_response = parse(res->body), return m_response;
\* on anything else, and on an exception, std::abort().
send_request_result(e) ==
    /\ proc[e] = "running"
    /\ cpc[e] = "sending"
    /\ reqs[LastOf(e)].pc = "sent" \/ Broken(LastOf(e))
    /\ LET i == LastOf(e)
       IN IF reqs[i].pc = "sent" /\ reqs[i].status = StatusOK /\ ~ParseThrows(reqs[i].rbody)
          THEN /\ m_response' = [m_response EXCEPT ![e] = Parse(reqs[i].rbody)]
               /\ reqs' = [reqs EXCEPT ![i].pc = "delivered",
                                       ![i].returned = TRUE,
                                       ![i].ret = Parse(reqs[i].rbody)]
               /\ cpc' = [cpc EXCEPT ![e] = "ready"]
               /\ Called("send_request_result", e, reqs[i].path, "returned")
               /\ UNCHANGED proc
          ELSE /\ m_response' = [m_response EXCEPT ![e] =
                                    IF reqs[i].pc = "sent" /\ reqs[i].status = StatusOK
                                    THEN Clear(@) ELSE @]
               /\ reqs' = [reqs EXCEPT ![i].pc = IF @ = "sent" THEN "delivered" ELSE @]
               /\ Aborted(e)
               /\ Called("send_request_result", e, reqs[i].path, "aborted")
               /\ UNCHANGED cpc
    /\ UNCHANGED <<m_server, m_client, m_request_handlers, m_schema_validator,
                   m_request, m_debug, m_debug_prefix, m_request_counter,
                   m_comm_type, sys_pars_, m_version, routes, listener>>

(***************************************************************************)
(* The specification: any application calls, any posts, any interleaving   *)
(* of the workers.                                                         *)
(***************************************************************************)
RequestIds == 1..(MaxPosts + MaxRequests + MaxCalls)

Workers ==
    \/ \E i \in RequestIds : CountRead(i)
    \/ \E i \in RequestIds : CountWrite(i)
    \/ \E i \in RequestIds : RequestClear(i)
    \/ \E i \in RequestIds : RequestParse(i)
    \/ \E i \in RequestIds : RequestValidate(i)
    \/ \E i \in RequestIds : HandlerCall(i)
    \/ \E i \in RequestIds : ResponseStore(i)
    \/ \E i \in RequestIds : ResponseValidate(i)
    \/ \E i \in RequestIds : ResponseContent(i)
    \/ \E i \in RequestIds : HandshakeParse(i)
    \/ \E i \in RequestIds : HandshakeClear(i)
    \/ \E i \in RequestIds : HandshakeSet(i)
    \/ \E i \in RequestIds : HandshakeContent(i)
    \/ \E i \in RequestIds : HandshakeStop(i)
    \/ \E i \in RequestIds : CatchAll(i)
    \/ \E i \in RequestIds : SendResponse(i)

\* The registrations an application makes: a name and a handler.
Registrations ==
    {<<"/ping", "pong">>, <<"/ping", "set_parameters">>, <<"/echo", "echo">>, <<"", "pong">>}

\* No request is with a worker.
Quiet == \A i \in 1..Len(reqs) : reqs[i].pc \in {"sent", "delivered", "refused"}

\* The calls of the application that owns "dock".  start_server and
\* start_client may come at any time (also from a second thread while the
\* first is blocked in start_server); register_response writes the maps the
\* workers read, and is called while no request is with a worker.
Calls(limit) ==
    \/ Quiet /\ \E r \in Registrations : register_response("dock", r[1], r[2])
    \/ start_server("dock")
    \/ \E caught \in BOOLEAN : start_client(limit, "dock", caught)

Posts(limit) == \E r \in ExternalRequests : ExternalPost(limit, ServerAddress, r[1], r[2])

Next == Calls(MaxPosts) \/ Posts(MaxPosts) \/ Workers

Spec == Init /\ [][Next]_vars

\* MaxRequests requests, each posted once the one before it is answered.
NextSequential ==
    \/ Quiet /\ Calls(MaxRequests)
    \/ Quiet /\ Posts(MaxRequests)
    \/ Workers

SpecSequential == Init /\ [][NextSequential]_vars

\* MaxRequests requests, posted at any time, so that they are in flight together.
NextConcurrent ==
    \/ Quiet /\ Calls(MaxRequests)
    \/ Posts(MaxRequests)
    \/ Workers

SpecConcurrent == Init /\ [][NextConcurrent]_vars

(***************************************************************************)
(* An application that registers names whose schema file is absent or is   *)
(* no JSON, and a handler under the handshake path, before it serves one   *)
(* request after the other.                                                *)
(***************************************************************************)
SetupRegistrations ==
    {<<"/ping", "pong">>, <<"/missing", "pong">>, <<"/broken", "echo">>,
     <<HandshakePath, "pong">>, <<"", "pong">>}

\* What the callers of this server post: the requests above, and handshake
\* documents that have no "version" entry.
SetupRequests ==
    ExternalRequests \cup
        {<<HandshakePath, Dump(Str("x"))>>,
         <<HandshakePath, Dump(Obj({<<"value", "number", "5">>}))>>}

NextSetup ==
    \/ m_server["dock"] = "null"
          /\ \E r \in SetupRegistrations : register_response("dock", r[1], r[2])
    \/ start_server("dock")
    \/ Quiet /\ \E r \in SetupRequests :
                   ExternalPost(MaxRequests, ServerAddress, r[1], r[2])
    \/ Workers

SpecSetup == Init /\ [][NextSetup]_vars

(***************************************************************************)
(* A server and a client: "dock" registers handlers and serves, "peer" is  *)
(* a NuDock client of it, built from the same or from another version.     *)
(* The client waits for each reply, so that the server has one request at  *)
(* a time.                                                                 *)
(***************************************************************************)
InitPair ==
    /\ m_server = [e \in Endpoints |-> "null"]
    /\ m_client = [e \in Endpoints |-> FALSE]
    /\ m_request_handlers = [e \in Endpoints |-> [n \in {} |-> ""]]
    /\ m_schema_validator = [e \in Endpoints |-> [n \in {} |-> ""]]
    /\ m_request = [e \in Endpoints |-> Null]
    /\ m_response = [e \in Endpoints |-> Null]
    /\ \E d \in BOOLEAN : m_debug = [e \in Endpoints |-> d]
    /\ m_debug_prefix = [e \in Endpoints |-> "Undefined"]
    /\ m_request_counter = [e \in Endpoints |-> 0]
    /\ \E k \in CommunicationType : m_comm_type = [e \in Endpoints |-> k]
    /\ sys_pars_ = [e \in Endpoints |-> {}]
    /\ \E v \in Versions : m_version = [e \in Endpoints |-> IF e = "dock" THEN LocalVersion ELSE v]
    /\ routes = [e \in Endpoints |-> [n \in {} |-> ""]]
    /\ listener = [a \in Addresses |-> "none"]
    /\ reqs = <<>>
    /\ proc = [e \in Endpoints |-> "running"]
    /\ cpc = [e \in Endpoints |-> "idle"]
    /\ lastCall = [op |-> "none", e |-> "none", arg |-> "", outcome |-> "none"]

\* The registrations of the server application, made before it starts.
PairRegistrations ==
    {<<"/ping", "pong">>, <<"/echo", "echo">>, <<"/echo", "non_finite">>}

\* What the client application passes to send_request: a name and a message.
SendRequests ==
    {<<"/ping", Str("x")>>,
     <<"/ping", Str("\\xff")>>,
     <<"/echo", Obj({<<"value", "number", "5">>})>>,
     <<"/echo", Obj({<<"value", "number", "nan">>})>>,
     <<"/echo", Obj({<<"value", "string", "x">>})>>,
     <<UnknownPath, Str("x")>>,
     <<"", Str("x")>>}

NextPair ==
    \/ m_server["dock"] = "null"
          /\ \E r \in PairRegistrations : register_response("dock", r[1], r[2])
    \/ start_server("dock")
    \/ \E e \in Endpoints, caught \in BOOLEAN :
          Free(e) /\ start_client(MaxRequests, e, caught)
    \/ \E e \in Endpoints, caught \in BOOLEAN : start_client_result(e, caught)
    \/ \E e \in Endpoints, r \in SendRequests : send_request(MaxRequests, e, r[1], r[2])
    \/ \E e \in Endpoints : send_request_result(e)
    \/ Workers

SpecPair == InitPair /\ [][NextPair]_vars

\* The same, with workers that go on with the request they hold (a handler
\* returns, the transport writes the reply) and a client thread that goes on
\* once its post has a result.
SpecPairLive ==
    /\ SpecPair
    /\ WF_vars(Workers)
    /\ WF_vars(\E e \in Endpoints : send_request_result(e))

(***************************************************************************)
(* The test server and the test client: the server registers the two       *)
(* methods of its Experiment object and serves, the client sets parameters *)
(* and asks for the likelihood, one call after the other.                  *)
(***************************************************************************)
SessionRegistrations ==
    {<<"/set_parameters", "set_parameters">>, <<"/log_likelihood", "log_likelihood">>}

SessionRequests ==
    {<<"/set_parameters", Obj({<<"value", "number", "5">>})>>,
     <<"/set_parameters", Obj({<<"value", "number", "7">>})>>,
     <<"/log_likelihood", Str("")>>}

NextSession ==
    \/ m_server["dock"] = "null"
          /\ \E r \in SessionRegistrations : register_response("dock", r[1], r[2])
    \/ start_server("dock")
    \/ \E caught \in BOOLEAN : Free("peer") /\ start_client(MaxCalls, "peer", caught)
    \/ \E caught \in BOOLEAN : start_client_result("peer", caught)
    \/ \E r \in SessionRequests : send_request(MaxCalls, "peer", r[1], r[2])
    \/ send_request_result("peer")
    \/ Workers

SpecSession == InitPair /\ [][NextSession]_vars

(***************************************************************************)
(* The claims.                                                             *)
(***************************************************************************)
Posted_(i) == i \in 1..Len(reqs)
Accepted(i) == Posted_(i) /\ reqs[i].to # "none"
Answered(i) == Accepted(i) /\ reqs[i].pc \in {"sent", "delivered"}
\* The request went to the route of a registered name.
ToHandlerRoute(i) ==
    /\ Accepted(i)
    /\ reqs[i].path # HandshakePath
    /\ reqs[i].path \in DOMAIN routes[reqs[i].to]
\* The step taken is a step of request i.
StepOf(i) == Posted_(i) /\ reqs'[i] # reqs[i]
Unset(e) == m_server[e] = "null" /\ ~m_client[e]

\* C1: with validation enabled, a request whose document violates the request
\* schema of its name is answered with status 400 and its handler is not
\* invoked for it.
C1_ViolatingRequestRejected ==
    \A i \in 1..Len(reqs) :
        ( /\ ToHandlerRoute(i)
          /\ m_debug[reqs[i].to]
          /\ ~ParseThrows(reqs[i].body)
          /\ ~Validate(m_schema_validator[reqs[i].to][reqs[i].path].request,
                       Parse(reqs[i].body)) )
        => /\ ~reqs[i].invoked
           /\ (Answered(i) => reqs[i].status = 400)

\* C2: the step in which a per-handler route answers with status 400 (the
\* body did not parse, a validation failed, the handler threw) leaves the
\* server running and accepting connections.
C2_ErrorReplyKeepsServerRunning ==
    [][\A i \in 1..Len(reqs) :
         ( /\ ToHandlerRoute(i)
           /\ reqs[i].status # 400
           /\ reqs'[i].status = 400 )
         => /\ m_server'[reqs[i].to] = m_server[reqs[i].to]
            /\ listener' = listener]_vars

\* C3: every handler invocation receives the document parsed from its own
\* request, and every success reply of a per-handler route carries the
\* output of the invocation made for that same request.
C3_EachRequestOwnsItsDocuments ==
    \A i \in 1..Len(reqs) :
        ToHandlerRoute(i) =>
            /\ (reqs[i].invoked => reqs[i].harg = Parse(reqs[i].body))
            /\ (Answered(i) /\ reqs[i].status = 200 => reqs[i].rbody = Dump(reqs[i].out))

\* C4: every handshake request { "version": V } is answered with status 200
\* and exactly the document { "version": localVersion }.
C4_HandshakeRepliesOwnVersion ==
    \A i \in 1..Len(reqs) :
        ( /\ Answered(i)
          /\ reqs[i].path = HandshakePath
          /\ \E v \in Versions : reqs[i].body = Dump(VersionDoc(v)) )
        => /\ reqs[i].status = 200
           /\ reqs[i].rbody = Dump(VersionDoc(m_version[reqs[i].to]))

\* C5: a handshake presenting another version stops the server only after its
\* response has been sent: as long as that response is not out, the server
\* still accepts connections.
C5_MismatchStopsAfterReply ==
    \A i \in 1..Len(reqs) :
        ( /\ Accepted(i)
          /\ reqs[i].path = HandshakePath
          /\ reqs[i].body = Dump(VersionDoc(OtherVersion))
          /\ m_version[reqs[i].to] # OtherVersion
          /\ ~Answered(i) )
        => /\ m_server[reqs[i].to] = "listening"
           /\ \E a \in Addresses : listener[a] = reqs[i].to

\* C6: no step of a handshake request that presents the server's own version
\* stops the server.
C6_MatchingHandshakeKeepsServerRunning ==
    [][\A i \in 1..Len(reqs) :
         ( /\ Accepted(i)
           /\ reqs[i].path = HandshakePath
           /\ reqs[i].body = Dump(VersionDoc(m_version[reqs[i].to]))
           /\ StepOf(i) )
         => /\ m_server'[reqs[i].to] = m_server[reqs[i].to]
            /\ listener' = listener]_vars

\* C7: an endpoint never holds the server handle and the client handle
\* together, and a handle that is set stays set.
C7_AtMostOneRoleForGood ==
    /\ [](\A e \in Endpoints : ~(m_server[e] # "null" /\ m_client[e]))
    /\ [][\A e \in Endpoints :
            /\ (m_server[e] # "null" => m_server'[e] # "null")
            /\ (m_client[e] => m_client'[e])]_vars

\* A second start was tried on a server that has stopped, and refused.
C7_Witness ==
    \E e \in Endpoints :
        /\ m_server[e] = "stopped" /\ ~m_client[e]
        /\ lastCall.e = e /\ lastCall.op = "start_client" /\ lastCall.outcome = "rejected"

\* C8: start_server or start_client on an endpoint that is not Unset is
\* rejected and changes nothing: no route, no binding, no handshake post, and
\* role, registry, counter and every other field keep their values.
C8_SecondStartChangesNothing ==
    [][\A e \in Endpoints :
         ( /\ ~Unset(e)
           /\ lastCall'.e = e
           /\ lastCall'.op \in {"start_server", "start_client"} )
         => /\ lastCall'.outcome = "rejected"
            /\ UNCHANGED <<m_server, m_client, m_request_handlers, m_schema_validator,
                           m_request, m_response, m_debug, m_debug_prefix,
                           m_request_counter, m_comm_type, sys_pars_, m_version, routes, listener,
                           reqs, proc, cpc>>]_vars

\* start_server was called on a server that is listening, with a handler
\* registered, and refused.
C8_Witness ==
    /\ m_server["dock"] = "listening"
    /\ DOMAIN m_request_handlers["dock"] # {}
    /\ lastCall.e = "dock" /\ lastCall.op = "start_server" /\ lastCall.outcome = "rejected"

\* C9: register_response with an empty name or a name already registered
\* leaves both maps as they are and raises nothing; a registered name keeps
\* its first handler and schema pair, and the empty name is never registered.
C9_RejectedRegistrationChangesNothing ==
    /\ [](\A e \in Endpoints :
            "" \notin DOMAIN m_request_handlers[e] \cup DOMAIN m_schema_validator[e])
    /\ [][\A e \in Endpoints :
            /\ ( /\ lastCall'.e = e
                 /\ lastCall'.op = "register_response"
                 /\ (lastCall'.arg = "" \/ lastCall'.arg \in DOMAIN m_request_handlers[e]) )
               => /\ lastCall'.outcome = "rejected"
                  /\ UNCHANGED <<m_request_handlers, m_schema_validator>>
            /\ \A n \in DOMAIN m_request_handlers[e] :
                  /\ n \in DOMAIN m_request_handlers'[e]
                  /\ m_request_handlers'[e][n] = m_request_handlers[e][n]
            /\ \A n \in DOMAIN m_schema_validator[e] :
                  /\ n \in DOMAIN m_schema_validator'[e]
                  /\ m_schema_validator'[e][n] = m_schema_validator[e][n]]_vars

\* A name registered with one handler was registered again and refused.
C9_Witness ==
    /\ lastCall.op = "register_response" /\ lastCall.outcome = "rejected"
    /\ lastCall.arg \in DOMAIN m_request_handlers[lastCall.e]

\* C10: a request to a path that is neither the handshake path nor a
\* registered name invokes no handler, is answered with status 404 and the
\* body { "error": "Unknown request title: <path>" }, and none of its steps
\* stops the server.
Unregistered(i) ==
    /\ Accepted(i)
    /\ reqs[i].path # HandshakePath
    /\ reqs[i].path \notin DOMAIN m_request_handlers[reqs[i].to]

C10_UnknownPathIsNotFound ==
    /\ [](\A i \in 1..Len(reqs) :
            Unregistered(i) =>
                /\ ~reqs[i].invoked
                /\ Answered(i) =>
                      /\ reqs[i].status = 404
                      /\ reqs[i].rbody =
                            [wf |-> TRUE,
                             doc |-> [t |-> "object", v |-> "",
                                      m |-> {<<"error", "string",
                                               "Unknown request title: " \o reqs[i].path>>}]])
    /\ [][\A i \in 1..Len(reqs) :
            Unregistered(i) /\ StepOf(i) =>
                /\ m_server'[reqs[i].to] = m_server[reqs[i].to]
                /\ listener' = listener]_vars

\* A request to an unknown path was answered and the server is listening.
C10_Witness ==
    \E i \in 1..Len(reqs) :
        /\ Unregistered(i) /\ Answered(i)
        /\ reqs[i].path = UnknownPath
        /\ m_server[reqs[i].to] = "listening"

\* A request that send_request posted to a route of a registered name.
SentToHandler(i) == ToHandlerRoute(i) /\ reqs[i].api = "send_request"

\* C11: with validation on and one request at a time, a message that conforms
\* to the request schema of its name is the document the handler receives,
\* and a handler output that conforms to the response schema is the document
\* send_request returns.
C11_RoundTripChangesNothing ==
    \A i \in 1..Len(reqs) :
        ( /\ SentToHandler(i)
          /\ m_debug[reqs[i].to]
          /\ Validate(m_schema_validator[reqs[i].to][reqs[i].path].request, reqs[i].msg) )
        => /\ reqs[i].invoked => reqs[i].harg = reqs[i].msg
           /\ ( /\ reqs[i].invoked
                /\ reqs[i].returned
                /\ Validate(m_schema_validator[reqs[i].to][reqs[i].path].response, reqs[i].out) )
              => reqs[i].ret = reqs[i].out

\* The handler of request i returned an output that violates the response
\* schema of the request's name.
OutputViolates(i) ==
    /\ ToHandlerRoute(i)
    /\ reqs[i].invoked
    /\ reqs[i].rbody # PlainText("handler_error")
    /\ reqs[i].pc \notin {"h_call"}
    /\ ~Validate(m_schema_validator[reqs[i].to][reqs[i].path].response, reqs[i].out)

\* C12: with validation on, a request whose handler output violates the
\* response schema is answered with status 400 and the validation error
\* text, not with the output.
C12_ViolatingOutputRejected ==
    \A i \in 1..Len(reqs) :
        (OutputViolates(i) /\ m_debug[reqs[i].to] /\ Answered(i))
        => /\ reqs[i].status = 400
           /\ reqs[i].rbody = PlainText("Server response validation failed")

\* C13: with the debug flag off, a request to a registered name whose body
\* parses never enters a validation, reaches the handler whatever the request
\* schema says, and unless the handler throws it is answered with status 200
\* and a serialised document whatever the response schema says.
C13_NoValidationWithoutDebug ==
    \A i \in 1..Len(reqs) :
        (ToHandlerRoute(i) /\ ~m_debug[reqs[i].to] /\ ~ParseThrows(reqs[i].body))
        => /\ reqs[i].pc \notin {"h_validate_request", "h_validate_response"}
           /\ Answered(i) =>
                 /\ reqs[i].invoked
                 /\ reqs[i].rbody # PlainText("handler_error") =>
                       /\ reqs[i].status = 200
                       /\ ~ParseThrows(reqs[i].rbody)

\* A request that violates the request schema of its name was passed to the
\* handler and answered with status 200, the debug flag being off.
C13_Witness ==
    \E i \in 1..Len(reqs) :
        /\ ToHandlerRoute(i) /\ ~m_debug[reqs[i].to] /\ ~ParseThrows(reqs[i].body)
        /\ ~Validate(m_schema_validator[reqs[i].to][reqs[i].path].request, Parse(reqs[i].body))
        /\ Answered(i) /\ reqs[i].invoked /\ reqs[i].status = 200

\* C14: send_request on an endpoint whose client handle is not set (Unset or
\* Server), or with an empty name, ends the process for good and posts
\* nothing.
C14_SendRequestAbortsWithoutClient ==
    [][\A e \in Endpoints :
         /\ ( /\ lastCall'.op = "send_request"
              /\ lastCall'.e = e
              /\ (~m_client[e] \/ lastCall'.arg = "") )
            => /\ lastCall'.outcome = "aborted"
               /\ proc'[e] = "terminated"
               /\ reqs' = reqs
         /\ proc[e] = "terminated" => proc'[e] = "terminated"]_vars

\* send_request was called on a listening server and ended its process.
C14_Witness ==
    /\ lastCall.op = "send_request" /\ lastCall.outcome = "aborted"
    /\ lastCall.arg # ""
    /\ m_server[lastCall.e] = "listening"
    /\ proc[lastCall.e] = "terminated"

\* The post of request i did not end in a success reply the client could
\* parse: the connection was refused, or send_request has seen a status
\* other than 200 or a body that is no JSON text.
SendFailed(i) ==
    /\ i \in 1..Len(reqs)
    /\ reqs[i].api = "send_request"
    /\ \/ reqs[i].pc = "refused"
       \/ reqs[i].pc = "delivered"
            /\ (reqs[i].status # 200 \/ ParseThrows(reqs[i].rbody))

\* C15: a send_request call posts at most one request, in the step of the
\* call; when the post fails, the reply is not a success or an exception is
\* raised, the client process has ended, no value was returned and the
\* endpoint posts nothing afterwards.
C15_NoRetryNoErrorReturn ==
    /\ [](\A i \in 1..Len(reqs) :
            SendFailed(i) =>
                /\ proc[reqs[i].from] = "terminated"
                /\ ~reqs[i].returned
                /\ \A j \in (i + 1)..Len(reqs) : reqs[j].from # reqs[i].from)
    /\ [][\A e \in Endpoints :
            (lastCall'.e = e /\ lastCall'.op \in {"send_request", "send_request_result"})
            => /\ Len(reqs') <= Len(reqs) + (IF lastCall'.op = "send_request" THEN 1 ELSE 0)
               /\ lastCall'.outcome \in {"aborted", "exception", "refused"}
                     => proc'[e] = "terminated"
               /\ lastCall'.outcome = "exception" => reqs' = reqs]_vars

\* send_request got a 400 or a 404 reply and the client process ended.
C15_Witness ==
    \E i \in 1..Len(reqs) :
        /\ SendFailed(i)
        /\ reqs[i].pc = "delivered"
        /\ reqs[i].status \in {400, 404}
        /\ proc[reqs[i].from] = "terminated"

\* The handshake post of start_client on endpoint e was refused, or its
\* reply, as start_client saw it, was not a success.
HandshakeFailed(e, i) ==
    /\ i \in 1..Len(reqs)
    /\ reqs[i].api = "start_client"
    /\ reqs[i].from = e
    /\ \/ reqs[i].pc = "refused"
       \/ reqs[i].pc = "delivered" /\ reqs[i].status # 200

\* C16: after a handshake post that was refused or answered with a status
\* other than 200 the client process has ended: the endpoint is not
\* ClientReady and no send_request of it posts a request afterwards.
C16_HandshakeFailureIsFatal ==
    \A e \in Endpoints : \A i \in 1..Len(reqs) :
        HandshakeFailed(e, i) =>
            /\ proc[e] = "terminated"
            /\ cpc[e] # "ready"
            /\ \A j \in (i + 1)..Len(reqs) :
                  ~(reqs[j].from = e /\ reqs[j].api = "send_request")

\* The handshake of client e was answered with status 200 and a version
\* document that names another version than the client's.
OtherVersionReplied(e) ==
    /\ cpc[e] = "handshake"
    /\ reqs[HandshakeOf(e)].pc = "sent"
    /\ reqs[HandshakeOf(e)].status = 200
    /\ \E v \in Versions \ {m_version[e]} :
          reqs[HandshakeOf(e)].rbody = Dump(VersionDoc(v))

\* C17: when the handshake reply is a success that carries another version,
\* start_client logs the mismatch and goes on: nothing is thrown, the process
\* runs, and the endpoint ends ClientReady.
C17_ClientOnlyLogsMismatch ==
    [][\A e \in Endpoints :
         ( /\ OtherVersionReplied(e)
           /\ lastCall'.op = "handshake_result"
           /\ lastCall'.e = e )
         => /\ lastCall'.outcome = "mismatch logged"
            /\ cpc'[e] = "ready"
            /\ proc'[e] = "running"
            /\ m_client'[e]]_vars

\* A client built from another version than its server is ClientReady.
C17_Witness ==
    /\ lastCall.op = "handshake_result" /\ lastCall.outcome = "mismatch logged"
    /\ cpc[lastCall.e] = "ready"
    /\ proc[lastCall.e] = "running"
    /\ m_version[lastCall.e] # m_version["dock"]

\* The handshake posts of endpoint e.
HandshakesOf(e) ==
    {i \in 1..Len(reqs) : reqs[i].from = e /\ reqs[i].api = "start_client"}

\* C18: a client endpoint posts its handshake at most once, in the step that
\* creates its connection, and every post of send_request comes after the
\* handshake post of the same endpoint.
C18_HandshakeOnceAndFirst ==
    /\ [](\A e \in Endpoints :
            /\ Cardinality(HandshakesOf(e)) <= 1
            /\ \A i \in HandshakesOf(e) : reqs[i].path = HandshakePath
            /\ \A j \in 1..Len(reqs) :
                  (reqs[j].from = e /\ reqs[j].api = "send_request")
                  => \E i \in HandshakesOf(e) : i < j)
    /\ [][\A e \in Endpoints :
            (m_client'[e] /\ ~m_client[e])
            => /\ Len(reqs') = Len(reqs) + 1
               /\ Len(reqs') \in {i \in 1..Len(reqs') :
                                     reqs'[i].from = e /\ reqs'[i].api = "start_client"}]_vars

\* A client that has posted its handshake and then a request was asked to
\* start again and refused.
C18_Witness ==
    /\ \E i \in HandshakesOf("peer") : \E j \in (i + 1)..Len(reqs) :
          reqs[j].from = "peer" /\ reqs[j].api = "send_request"
    /\ lastCall.op = "start_client" /\ lastCall.e = "peer" /\ lastCall.outcome = "rejected"

\* C19: an endpoint configured with the network kind never listens at any
\* address, never gets a client connection and never posts a handshake;
\* start_server and start_client end with the unsupported diagnostic.
C19_NetworkKindUnsupported ==
    /\ [](\A e \in Endpoints :
            m_comm_type[e] = "TCP" =>
                /\ \A a \in Addresses : listener[a] # e
                /\ m_server[e] \notin {"listening", "stopped"}
                /\ ~m_client[e]
                /\ HandshakesOf(e) = {})
    /\ [][\A e \in Endpoints :
            ( /\ m_comm_type[e] = "TCP"
              /\ Unset(e)
              /\ lastCall'.e = e
              /\ lastCall'.op \in {"start_server", "start_client"} )
            => /\ lastCall'.outcome = "unsupported"
               /\ listener' = listener
               /\ reqs' = reqs]_vars

\* start_server ended with the unsupported diagnostic.
C19_Witness ==
    /\ m_comm_type["dock"] = "TCP"
    /\ lastCall.e = "dock" /\ lastCall.op = "start_server"
    /\ lastCall.outcome = "unsupported"
    /\ \A a \in Addresses : listener[a] = "none"

\* C20: once start_server has been called on an endpoint its two maps no
\* longer change, and the names with a route are the registered names.
C20_RegistryFrozenAfterStart ==
    /\ [](\A e \in Endpoints :
            m_server[e] # "null" => DOMAIN routes[e] = DOMAIN m_request_handlers[e])
    /\ [][\A e \in Endpoints :
            m_server[e] # "null" =>
                /\ m_request_handlers'[e] = m_request_handlers[e]
                /\ m_schema_validator'[e] = m_schema_validator[e]]_vars

\* C21: register_response for a non-empty name that is not registered and
\* whose schema file is absent or does not parse ends with the exception
\* leaving the call, and neither map gains the name.
C21_SchemaFailurePropagates ==
    [][\A e \in Endpoints :
          ( /\ lastCall'.e = e
            /\ lastCall'.op = "register_response"
            /\ lastCall'.arg # ""
            /\ lastCall'.arg \notin DOMAIN m_request_handlers[e]
            /\ SchemaFileState(lastCall'.arg) \in {"missing", "malformed"} )
          => /\ lastCall'.outcome = "threw"
             /\ lastCall'.arg \notin DOMAIN m_request_handlers'[e]
             /\ lastCall'.arg \notin DOMAIN m_schema_validator'[e]
             /\ UNCHANGED <<m_request_handlers, m_schema_validator>>]_vars

\* A registration with a schema file that is no JSON threw, was caught by
\* the application, and a name with a good file was registered before it.
C21_Witness ==
    /\ lastCall.e = "dock" /\ lastCall.op = "register_response"
    /\ lastCall.arg = "/broken" /\ lastCall.outcome = "threw"
    /\ proc["dock"] = "running"
    /\ DOMAIN m_request_handlers["dock"] = {"/ping"}
    /\ DOMAIN m_schema_validator["dock"] = {"/ping"}


\* C26: on every endpoint the names with a handler are the names with a
\* schema pair, in every state.
C26_MapsShareKeys ==
    \A e \in Endpoints : DOMAIN m_request_handlers[e] = DOMAIN m_schema_validator[e]

\* A name is registered in both maps, and a later registration has thrown
\* on its schema file.
C26_Witness ==
    /\ "/ping" \in DOMAIN m_request_handlers["dock"]
    /\ "/ping" \in DOMAIN m_schema_validator["dock"]
    /\ lastCall.op = "register_response" /\ lastCall.arg = "/missing"
    /\ lastCall.outcome = "threw"


\* The steps of the handshake route, and of the transport after it.
HandshakeSteps == {"v_parse", "v_clear", "v_set", "v_content", "v_stop", "returned", "sent"}

\* C29: on a server with a handler registered under "/validate_start", a
\* request to that path is served by the handshake route only: the handler
\* is never invoked for it, it does not count as a request, and a reply with
\* status 200 carries a version document.
C29_HandshakeRouteFirst ==
    \A i \in 1..Len(reqs) :
        ( /\ Accepted(i)
          /\ reqs[i].path = HandshakePath
          /\ HandshakePath \in DOMAIN m_request_handlers[reqs[i].to] )
        => /\ ~reqs[i].invoked
           /\ reqs[i].out = Null
           /\ reqs[i].cnt = 0
           /\ reqs[i].pc \in HandshakeSteps
           /\ (reqs[i].pc = "sent" /\ reqs[i].status = StatusOK)
                 => \E v \in Versions : reqs[i].rbody = Dump(VersionDoc(v))

\* A handler is registered and routed under "/validate_start", and a request
\* to that path was answered with the server's version.
C29_Witness ==
    \E i \in 1..Len(reqs) :
        /\ reqs[i].path = HandshakePath
        /\ reqs[i].to = "dock"
        /\ HandshakePath \in DOMAIN routes["dock"]
        /\ reqs[i].pc = "sent"
        /\ reqs[i].status = StatusOK
        /\ reqs[i].rbody = Dump(VersionDoc(m_version["dock"]))


\* C23: a request the server has answered carries one of the statuses 200,
\* 400 and 404 and a body that its route has set, and a request that was
\* answered stays answered as it was.
C23_OneReplyOnEveryExit ==
    /\ [](\A i \in 1..Len(reqs) :
            Answered(i) => /\ reqs[i].status \in {StatusOK, StatusBadRequest, StatusNotFound}
                           /\ reqs[i].rbody # PlainText(""))
    /\ [][\A i \in 1..Len(reqs) :
            Answered(i) => /\ reqs'[i].status = reqs[i].status
                           /\ reqs'[i].rbody = reqs[i].rbody]_vars


\* C24: a handshake request { "version": V } is answered with status 200 and
\* exactly { "version": localVersion } when the other requests of the server
\* go to "/echo", whose handler returns an object: alone or one after the
\* other they leave the handshake reply as it is, so only an interleaving
\* with the per-handler route can change it.
C24_HandshakeReplyUnderConcurrency ==
    \A i \in 1..Len(reqs) :
        ( /\ Answered(i)
          /\ reqs[i].path = HandshakePath
          /\ \E v \in Versions : reqs[i].body = Dump(VersionDoc(v))
          /\ \A j \in 1..Len(reqs) : j # i => reqs[j].path = "/echo" )
        => /\ reqs[i].rbody = Dump(VersionDoc(m_version[reqs[i].to]))
           /\ reqs[i].status = StatusOK


\* The requests of server e that have passed m_request_counter++.
Counted(e) ==
    {i \in 1..Len(reqs) :
        /\ reqs[i].to = e
        /\ reqs[i].path \in DOMAIN routes[e]
        /\ reqs[i].path # HandshakePath
        /\ reqs[i].pc \notin {"h_count_read", "h_count_write"}}

\* C25: the request counter of a server is the number of requests that were
\* dispatched to a per-handler route and have passed its increment, it
\* never decreases, and only a per-handler route changes it.
C25_CounterCountsDispatches ==
    /\ [](\A e \in Endpoints : m_request_counter[e] = Cardinality(Counted(e)))
    /\ [][\A e \in Endpoints :
            /\ m_request_counter'[e] >= m_request_counter[e]
            /\ m_request_counter'[e] # m_request_counter[e]
                  => \E i \in 1..Len(reqs) :
                        /\ reqs[i].to = e
                        /\ reqs[i].pc = "h_count_write"
                        /\ reqs'[i].pc = "h_clear"]_vars


\* Client e has completed start_client against a server of another version:
\* its handshake was answered with status 200 and the reply was delivered.
CompletedWithMismatch(e) ==
    \E h \in HandshakesOf(e) :
        /\ reqs[h].to # "none"
        /\ reqs[h].pc = "delivered"
        /\ reqs[h].status = StatusOK
        /\ m_version[reqs[h].to] # m_version[e]

\* C27: once a client has completed start_client against a server of another
\* version, no handler is invoked for any request of that client, and each
\* send_request of it that reaches the post is refused by the transport and
\* ends the client process.
C27_MismatchedClientReachesNoHandler ==
    \A e \in Endpoints :
        CompletedWithMismatch(e) =>
            \A i \in 1..Len(reqs) :
                reqs[i].from = e =>
                    /\ ~reqs[i].invoked
                    /\ reqs[i].api = "send_request"
                          => /\ reqs[i].to = "none"
                             /\ reqs[i].pc = "refused"
                             /\ ~reqs[i].returned
                             /\ proc[e] = "terminated"

\* The client of another version has completed start_client, the server has
\* "/ping" routed, and the client's send_request to it was refused.
C27_Witness ==
    /\ CompletedWithMismatch("peer")
    /\ "/ping" \in DOMAIN routes["dock"]
    /\ \E i \in 1..Len(reqs) :
          /\ reqs[i].from = "peer"
          /\ reqs[i].api = "send_request"
          /\ reqs[i].path = "/ping"
          /\ reqs[i].pc = "refused"
    /\ proc["peer"] = "terminated"


\* C28: a handshake request whose document parses and has no "version"
\* entry is answered with status 200 and { "version": localVersion }, and
\* the server has stopped listening by the time the reply is written.
C28_VersionlessHandshakeIsMismatch ==
    \A i \in 1..Len(reqs) :
        ( /\ Answered(i)
          /\ reqs[i].path = HandshakePath
          /\ ~ParseThrows(reqs[i].body)
          /\ ~Contains(Parse(reqs[i].body), "version") )
        => /\ reqs[i].status = StatusOK
           /\ reqs[i].rbody = Dump(VersionDoc(m_version[reqs[i].to]))
           /\ m_server[reqs[i].to] = "stopped"
           /\ \A a \in Addresses : listener[a] # reqs[i].to


\* The requests to "/set_parameters" that the client of request j posted
\* before it and for which the handler was invoked.
SetBefore(j) ==
    {i \in 1..(j - 1) :
        /\ reqs[i].from = reqs[j].from
        /\ reqs[i].path = "/set_parameters"
        /\ reqs[i].invoked}

\* The parameters the client of request j has set by the time it posts j
\* (every message sets the same single parameter, so the last one decides).
ParametersSentBefore(j) ==
    IF SetBefore(j) = {} THEN {}
    ELSE ParametersSet({}, reqs[CHOOSE i \in SetBefore(j) : \A k \in SetBefore(j) : k <= i].msg)

\* C22: the requests of one client are served in the order of its calls:
\* when a request is posted every earlier request of that client has been
\* answered and delivered, or was refused, and the handler of
\* "/log_likelihood" computes from the parameters of the client's last
\* "/set_parameters" before it.
C22_RequestsServedInIssueOrder ==
    \A j \in 1..Len(reqs) :
        reqs[j].from \in Endpoints =>
            /\ \A i \in 1..(j - 1) :
                  reqs[i].from = reqs[j].from => reqs[i].pc \in {"delivered", "refused"}
            /\ ( /\ reqs[j].path = "/log_likelihood"
                 /\ ToHandlerRoute(j)
                 /\ reqs[j].invoked )
               => reqs[j].out =
                     Obj({<<"log_likelihood", "number",
                            LogLikelihood(ParametersSentBefore(j))>>})

\* The client has set the parameter to 5 and then to 7, and its call for
\* the likelihood has returned the square of 7.
C22_Witness ==
    /\ Len(reqs) = 4
    /\ reqs[2].path = "/set_parameters" /\ reqs[2].msg = Obj({<<"value", "number", "5">>})
    /\ reqs[3].path = "/set_parameters" /\ reqs[3].msg = Obj({<<"value", "number", "7">>})
    /\ reqs[4].path = "/log_likelihood"
    /\ reqs[4].returned
    /\ reqs[4].ret = Obj({<<"log_likelihood", "number", "49">>})


\* C30: a send_request call that has posted its request finishes: it
\* returns the parsed reply, which leaves the client ready for its next call,
\* or it ends the client process.
C30_SendRequestFinishes ==
    \A e \in Endpoints :
        (cpc[e] = "sending" /\ proc[e] = "running")
            ~> (cpc[e] = "ready" \/ proc[e] = "terminated")

\* A client of the server's version has been answered and its send_request
\* has returned the parsed reply.
C30_Witness ==
    /\ m_version["peer"] = m_version["dock"]
    /\ m_server["dock"] = "listening"
    /\ cpc["peer"] = "ready"
    /\ lastCall.e = "peer" /\ lastCall.op = "send_request_result"
    /\ lastCall.outcome = "returned"
    /\ \E i \in 1..Len(reqs) : reqs[i].from = "peer" /\ reqs[i].returned

=============================================================================
